---- MODULE Spec2Model ----
(***************************************************************************)
(* Model of the notebook pre-commit hooks of devops_tests:                 *)
(*   hooks/colab_header.py                      header codec and repair    *)
(*   hooks/check_notebook_open_atmos_structure.py   structure hook driver  *)
(*   hooks/notebooks_output.py                  notebook-output driver     *)
(*   hooks/check_badges.py                      permissive badge hook      *)
(*                                                                         *)
(* Text is a sequence of atoms.  An atom is one character ("'", "(", " ",  *)
(* "p", ...) or one of the fixed literals that the code only ever searches *)
(* for or compares as a whole ("pip_install_on_colab", "-examples", the    *)
(* lines of the header template before the install call).                  *)
(* Python's None is the record NoneV; Some(v) wraps a present value.       *)
(***************************************************************************)
EXTENDS Integers, Sequences, FiniteSets, TLC

VARIABLES
    files,      \* stored notebooks: file name -> sequence of cells
    repo_name,  \* --repo-name
    call,       \* the last check_colab_header call
    drv,        \* the running driver (main): its locals, log and return value
    io          \* inputs and results of the pure functions applied last

vars == <<files, repo_name, call, drv, io>>

-----------------------------------------------------------------------------
(* Bounds *)

MaxCells == 4       \* longest stored notebook of the header specification
MaxHeaders == 2     \* most header-like code cells of such a notebook
MaxNameLen == 1     \* longest package name of the codec specification
MaxVerLen == 1      \* longest version suffix of the codec specification
MaxFiles == 2       \* longest argv of a driver run
MaxLines == 5       \* most lines of a first cell of the pure-function specification
MaxValidated == 2   \* most cells of a notebook handed to a single validator

-----------------------------------------------------------------------------
(* Text helpers *)

NoneV == [none |-> TRUE, v |-> <<>>]

Some(x) == [none |-> FALSE, v |-> x]

Quotes == {"'", "\""}

Whitespace == {" ", "\n"}

At(s, i) == IF i \in 1..Len(s) THEN s[i] ELSE "<eof>"

Contains(s, a) == \E i \in 1..Len(s) : s[i] = a

startswith(s, p) == Len(p) <= Len(s) /\ SubSeq(s, 1, Len(p)) = p

\* all texts over alphabet A of length at most n
RECURSIVE TextsUpTo(_, _)
TextsUpTo(A, n) ==
    IF n = 0 THEN {<<>>}
    ELSE LET shorter == TextsUpTo(A, n - 1)
         IN  shorter \cup {Append(t, a) : t \in shorter, a \in A}

\* e evaluated once and handed to F: Bind(e, LAMBDA x : body) is
\* "x = e; body" (a LET is evaluated again at every use of its name)
Bind(e, F(_)) == CHOOSE r \in {F(x) : x \in {e}} : TRUE

\* first position >= i that a run of \s* cannot extend over
SkipWs(s, i) ==
    IF i > Len(s) THEN i
    ELSE CHOOSE j \in i..(Len(s) + 1) :
            /\ \A k \in i..(j - 1) : s[k] \in Whitespace
            /\ (j = Len(s) + 1 \/ s[j] \notin Whitespace)

\* first position >= i that a run of [^'"]* cannot extend over
RunEnd(s, i) ==
    IF i > Len(s) THEN i
    ELSE CHOOSE j \in i..(Len(s) + 1) :
            /\ \A k \in i..(j - 1) : s[k] \notin Quotes
            /\ (j = Len(s) + 1 \/ s[j] \in Quotes)

-----------------------------------------------------------------------------
(* hooks/colab_header.py: the header codec *)

HEADER_KEY_PATTERNS ==
    <<"install open-atmos-jupyter-utils", "google.colab", "pip_install_on_colab">>

ExamplesSuffix == <<"-examples">>

NoMatch == [ok |-> FALSE, examples |-> <<>>, main |-> <<>>]

\* _PIP_INSTALL_RE tried at position i:
\*   pip_install_on_colab\(\s*['"]([^'"]+)['"]\s*,\s*['"]([^'"]+)['"]\s*\)
\* q1, q2: the opening quotes; e1, e2: the closing quotes; c: the comma;
\* p: the closing parenthesis
PipInstallMatchAt(s, i) ==
    IF At(s, i) # "pip_install_on_colab" \/ At(s, i + 1) # "(" THEN NoMatch
    ELSE
    Bind(SkipWs(s, i + 2), LAMBDA q1 :
    Bind(RunEnd(s, q1 + 1), LAMBDA e1 :
    Bind(SkipWs(s, e1 + 1), LAMBDA c :
    Bind(SkipWs(s, c + 1), LAMBDA q2 :
    Bind(RunEnd(s, q2 + 1), LAMBDA e2 :
    Bind(SkipWs(s, e2 + 1), LAMBDA p :
        IF /\ At(s, q1) \in Quotes
           /\ e1 > q1 + 1
           /\ At(s, e1) \in Quotes
           /\ At(s, c) = ","
           /\ At(s, q2) \in Quotes
           /\ e2 > q2 + 1
           /\ At(s, e2) \in Quotes
           /\ At(s, p) = ")"
        THEN [ok |-> TRUE,
              examples |-> SubSeq(s, q1 + 1, e1 - 1),
              main |-> SubSeq(s, q2 + 1, e2 - 1)]
        ELSE NoMatch))))))

\* _PIP_INSTALL_RE.search: the leftmost match
PipInstallSearch(s) ==
    Bind({h \in {<<i, PipInstallMatchAt(s, i)>> : i \in 1..Len(s)} : h[2].ok},
         LAMBDA hits :
            IF hits = {} THEN NoMatch
            ELSE (CHOOSE h \in hits : \A g \in hits : h[1] <= g[1])[2])

\* the text after the first n atoms
DropPrefix(s, n) == SubSeq(s, n + 1, Len(s))

extract_versions(cell_source, name) ==
    Bind(PipInstallSearch(cell_source), LAMBDA m :
        IF ~m.ok THEN <<NoneV, NoneV>>
        ELSE IF \/ ~startswith(m.examples, name \o ExamplesSuffix)
                \/ ~startswith(m.main, name)
        THEN <<NoneV, NoneV>>
        ELSE <<Some(DropPrefix(m.examples, Len(name \o ExamplesSuffix))),
               Some(DropPrefix(m.main, Len(name)))>>)

\* Python truthiness of an optional text: neither None nor ""
Truthy(o) == ~o.none /\ o.v # <<>>

ResolveHookFirst(existing, hook_version) ==
    IF Truthy(hook_version) THEN hook_version.v
    ELSE IF Truthy(existing) THEN existing.v
    ELSE <<>>

resolve_version(existing, hook_version) ==
    IF Truthy(existing) THEN existing.v
    ELSE IF Truthy(hook_version) THEN hook_version.v
    ELSE <<>>

\* the template up to and including the opening quote of the first argument
HeaderPreamble ==
    <<"import os, sys\nos.environ['NUMBA_THREADING_LAYER'] = 'workqueue'  # PySDM & PyMPDATA don't work with TBB; OpenMP has extra dependencies on macOS\nif '",
      "google.colab", "' in sys.modules:\n    !pip --quiet ",
      "install open-atmos-jupyter-utils",
      "\n    from open_atmos_jupyter_utils import ", "pip_install_on_colab",
      "\n    ", "pip_install_on_colab", "(", "'">>

\* a header whose two arguments are given separately (build_header's
\* template with the arguments left open)
HeaderWith(examples_arg, main_arg, sep) ==
    HeaderPreamble \o examples_arg \o <<"'", ",">> \o sep \o <<"'">>
        \o main_arg \o <<"'", ")">>

BuildHeaderMainUnversioned(name, version) ==
    HeaderWith(name \o ExamplesSuffix \o version, name, <<" ">>)

build_header(name, version) ==
    HeaderWith(name \o ExamplesSuffix \o version, name \o version, <<" ">>)

looks_like_header(cell_source) ==
    \A k \in 1..Len(HEADER_KEY_PATTERNS) : Contains(cell_source, HEADER_KEY_PATTERNS[k])

-----------------------------------------------------------------------------
(* Notebooks *)

\* execution_count: <<>> is None, <<n>> is the count n
MarkdownCell(source) ==
    [cell_type |-> "markdown", source |-> source,
     execution_count |-> <<>>, outputs |-> <<>>]

CodeCell(source, execution_count, outputs) ==
    [cell_type |-> "code", source |-> source,
     execution_count |-> execution_count, outputs |-> outputs]

\* nbformat.v4.new_code_cell(source)
new_code_cell(source) == CodeCell(source, <<>>, <<>>)

\* list.insert(i, x), 0-based; an index past the end appends
ListInsert(l, i, x) ==
    LET k == IF i > Len(l) THEN Len(l) ELSE i
    IN  SubSeq(l, 1, k) \o <<x>> \o SubSeq(l, k + 1, Len(l))

\* the list after list.pop(i), 0-based
ListPop(l, i) == SubSeq(l, 1, i) \o SubSeq(l, i + 2, Len(l))

\* all sequences over S of length lo..hi
SeqsOfLen(S, lo, hi) == UNION {[1..n -> S] : n \in lo..hi}

-----------------------------------------------------------------------------
(* hooks/colab_header.py: check_colab_header *)

MinCells == 3

HeaderSlot == 2

MsgTooFewCells == "Notebook should have at least 3 cells"
MsgMalformed == "Colab header is malformed"
MsgMismatch == "Version mismatch in header"
MsgIncorrect == "Colab header is incorrect"

\* line 77: a code cell that looks like a header
IsHeaderCell(cell) == cell.cell_type = "code" /\ looks_like_header(cell.source)

\* index (0-based) of the first code cell that looks like a header; -1 is None
HeaderIndex(cells) ==
    LET hits == {i \in 0..(Len(cells) - 1) : IsHeaderCell(cells[i + 1])}
    IN  IF hits = {} THEN -1 ELSE CHOOSE i \in hits : \A j \in hits : i <= j

\* the checks of lines 93-99 on the two extracted versions: "" when they pass
VersionErrorNoMismatch(vs) ==
    IF vs[1].none \/ vs[2].none THEN MsgMalformed ELSE ""

VersionError(vs) ==
    IF vs[1].none \/ vs[2].none THEN MsgMalformed
    ELSE IF vs[1].v # vs[2].v THEN MsgMismatch
    ELSE ""

\* the header cell left where it was found
RelocateNever(cells, header_index) == cells

\* the header cell and the cell at index 2 exchanged
RelocateBySwap(cells, header_index) ==
    IF header_index = HeaderSlot THEN cells
    ELSE [cells EXCEPT ![header_index + 1] = cells[HeaderSlot + 1],
                       ![HeaderSlot + 1] = cells[header_index + 1]]

\* lines 112-114: the header cell moved to index 2 (remove, then insert)
Relocate(cells, header_index) ==
    IF header_index = HeaderSlot THEN cells
    ELSE ListInsert(ListPop(cells, header_index), HeaderSlot, cells[header_index + 1])

Raised(cells, msg) ==
    [raised |-> TRUE, ret |-> FALSE, msg |-> msg, cells |-> cells, writes |-> 0]

\* the notebook written on every successful return
ReturnedAlwaysWriting(cells, modified) ==
    [raised |-> FALSE, ret |-> modified, msg |-> "", cells |-> cells, writes |-> 1]

Returned(cells, modified) ==
    [raised |-> FALSE, ret |-> modified, msg |-> "", cells |-> cells,
     writes |-> IF modified THEN 1 ELSE 0]

\* a differing header is an error whatever fix is
RaiseIncorrectAlways(differs, fix) == differs

\* lines 106-108: a header that differs from the canonical one is an error
\* unless repair was requested
RaiseIncorrectNever(differs, fix) == FALSE

RaiseIncorrect(differs, fix) == differs /\ ~fix

\* lines 89-119: the header cell exists, at header_index
CheckExistingHeader(cells, name, fix, hook_version, header_index) ==
    Bind(cells[header_index + 1], LAMBDA header_cell :
    Bind(extract_versions(header_cell.source, name), LAMBDA vs :
    Bind(VersionError(vs), LAMBDA error :
        IF error # "" THEN Raised(cells, error)
        ELSE
        Bind(build_header(name, resolve_version(vs[2], hook_version)),
             LAMBDA header_source :
            IF RaiseIncorrect(header_cell.source # header_source, fix)
            THEN Raised(cells, MsgIncorrect)
            ELSE Returned(
                    Relocate(
                        IF header_cell.source # header_source
                        THEN [cells EXCEPT ![header_index + 1].source = header_source]
                        ELSE cells,
                        header_index),
                    header_cell.source # header_source \/ header_index # HeaderSlot)))))

\* the synthesized header appended after the last cell
CreateHeaderAppended(cells, name, hook_version) ==
    Returned(
        Append(cells,
               new_code_cell(build_header(name, resolve_version(NoneV, hook_version)))),
        TRUE)

\* lines 82-87: no header cell exists
CreateHeader(cells, name, hook_version) ==
    Returned(
        ListInsert(cells, HeaderSlot,
                   new_code_cell(build_header(name, resolve_version(NoneV, hook_version)))),
        TRUE)

\* the call's outcome: whether it raised (and what), what it returned, the
\* notebook stored afterwards and the number of nbformat.write calls
check_colab_header(cells, name, fix, hook_version) ==
    IF Len(cells) < MinCells THEN Raised(cells, MsgTooFewCells)
    ELSE Bind(HeaderIndex(cells), LAMBDA header_index :
            IF header_index = -1
            THEN CreateHeader(cells, name, hook_version)
            ELSE CheckExistingHeader(cells, name, fix, hook_version, header_index))

-----------------------------------------------------------------------------
(* The header specification: check_colab_header called again and again on  *)
(* one stored notebook, with either setting of fix and any hook version.   *)

NotebookFile == "a.ipynb"

RepoNames == {<<"p">>, <<>>}

HookVersions == {NoneV, Some(<<"2">>)}

\* the cells a stored notebook is made of, for package name `name`
HeaderPool(name) ==
    { \* header text in a markdown cell: no header cell
      MarkdownCell(build_header(name, <<"1">>)),
      CodeCell(<<"x">>, <<1>>, <<>>),
      CodeCell(build_header(name, <<>>), <<>>, <<>>),
      CodeCell(build_header(name, <<"1">>), <<>>, <<>>),
      \* the two versions differ
      CodeCell(HeaderWith(name \o ExamplesSuffix \o <<"1">>, name \o <<"2">>, <<" ">>),
               <<>>, <<>>),
      \* another package's header
      CodeCell(build_header(<<"q">>, <<"1">>), <<>>, <<>>),
      \* equal versions, other white space than the template's
      CodeCell(HeaderWith(name \o ExamplesSuffix \o <<"1">>, name \o <<"1">>, <<"\n", " ">>),
               <<2>>, <<>>) }

DrvIdle == [hook |-> "none"]

IoIdle == [op |-> "none"]

NoCall ==
    [valid |-> FALSE, fix |-> FALSE, hook_version |-> NoneV, raised |-> FALSE,
     ret |-> FALSE, msg |-> "", writes |-> 0, before |-> <<>>]

HeaderNotebooks(name) ==
    {nb \in SeqsOfLen(HeaderPool(name), 1, MaxCells) :
        Cardinality({i \in 1..Len(nb) : IsHeaderCell(nb[i])}) <= MaxHeaders}

Init ==
    /\ repo_name \in RepoNames
    /\ files \in [{NotebookFile} -> HeaderNotebooks(repo_name)]
    /\ call = NoCall
    /\ drv = DrvIdle
    /\ io = IoIdle

\* one call check_colab_header(NotebookFile, repo_name, fix, hook_version)
CallHeader(fix, hook_version) ==
    \E r \in {check_colab_header(files[NotebookFile], repo_name, fix, hook_version)} :
        /\ files' = [files EXCEPT ![NotebookFile] = r.cells]
        /\ call' = [valid |-> TRUE, fix |-> fix, hook_version |-> hook_version,
                    raised |-> r.raised, ret |-> r.ret, msg |-> r.msg,
                    writes |-> r.writes, before |-> files[NotebookFile]]
        /\ UNCHANGED <<repo_name, drv, io>>

CheckOnly == \E hook_version \in HookVersions : CallHeader(FALSE, hook_version)

CheckAndFix == \E hook_version \in HookVersions : CallHeader(TRUE, hook_version)

Next == CheckOnly \/ CheckAndFix

Spec == Init /\ [][Next]_vars

-----------------------------------------------------------------------------
(* Properties of check_colab_header, on the last call and the stored       *)
(* notebook it left                                                        *)

Stored == files[NotebookFile]

\* the last call found a header cell in a notebook of at least 3 cells
HadHeader ==
    /\ call.valid
    /\ Len(call.before) >= MinCells
    /\ HeaderIndex(call.before) # -1

BeforeHeader == call.before[HeaderIndex(call.before) + 1]

BeforeVersions == extract_versions(BeforeHeader.source, repo_name)

HookOrEmpty(hook_version) ==
    IF hook_version.none THEN <<>> ELSE hook_version.v

\* how often cell c occurs in cells
Occurrences(cells, c) == Cardinality({i \in 1..Len(cells) : cells[i] = c})

SameCells(a, b) ==
    /\ Len(a) = Len(b)
    /\ \A i \in 1..Len(a) : Occurrences(a, a[i]) = Occurrences(b, a[i])

\* C1 (as claimed, here for a non-empty package name): once a call with
\* fix=True has returned, the next call with the same arguments returns
\* False, writes nothing and leaves the stored cells as the first call left
\* them.
C1_RepairIdempotent ==
    [][(/\ repo_name # <<>>
        /\ call.valid /\ call.fix /\ ~call.raised
        /\ call'.valid /\ call'.fix
        /\ call'.hook_version = call.hook_version)
       => (/\ ~call'.raised
           /\ ~call'.ret
           /\ call'.writes = 0
           /\ files' = files)]_vars

\* C3 (as claimed): a successful call leaves the version embedded in an
\* existing header as it was, and resolve_version returns that version.
C3_ExistingVersionKept ==
    (HadHeader /\ ~call.raised) =>
        /\ resolve_version(BeforeVersions[2], call.hook_version) = BeforeVersions[2].v
        /\ extract_versions(Stored[HeaderSlot + 1].source, repo_name)[2]
               = BeforeVersions[2]

\* C3 (amended): resolve_version returns the version embedded in the existing
\* header when that version is not empty, otherwise the hook version when one
\* is given, otherwise ""; a successful call leaves exactly that version in
\* the header at index 2, so a non-empty embedded version is never replaced.
C3_VersionPrecedence ==
    call.valid =>
        /\ resolve_version(NoneV, call.hook_version) = HookOrEmpty(call.hook_version)
        /\ (HadHeader /\ ~BeforeVersions[2].none) =>
              resolve_version(BeforeVersions[2], call.hook_version)
                 = IF BeforeVersions[2].v # <<>> THEN BeforeVersions[2].v
                   ELSE HookOrEmpty(call.hook_version)
        /\ (HadHeader /\ ~call.raised) =>
              extract_versions(Stored[HeaderSlot + 1].source, repo_name)[2]
                 = Some(IF BeforeVersions[2].v # <<>> THEN BeforeVersions[2].v
                        ELSE HookOrEmpty(call.hook_version))

\* a repairing call that met version "1" while the hook version was "2"
C3_Witness ==
    /\ HadHeader /\ ~call.raised /\ call.fix /\ call.ret
    /\ call.hook_version = Some(<<"2">>)
    /\ BeforeVersions[2] = Some(<<"1">>)
    /\ BeforeHeader.source # build_header(repo_name, <<"1">>)
    /\ Stored[HeaderSlot + 1].source = build_header(repo_name, <<"1">>)

\* C4: with a header cell present, unextractable versions raise "malformed"
\* and two different versions raise "version mismatch", whatever fix is and
\* wherever the header sits, before any rewrite or relocation.
C4_VersionErrorsFirst ==
    HadHeader =>
        /\ (BeforeVersions[1].none \/ BeforeVersions[2].none) =>
              /\ call.raised /\ call.msg = MsgMalformed
              /\ call.writes = 0 /\ Stored = call.before
        /\ (/\ ~BeforeVersions[1].none /\ ~BeforeVersions[2].none
            /\ BeforeVersions[1].v # BeforeVersions[2].v) =>
              /\ call.raised /\ call.msg = MsgMismatch
              /\ call.writes = 0 /\ Stored = call.before

\* a repairing call on a misplaced, non-canonical header with versions 1, 2
C4_Witness ==
    /\ HadHeader /\ call.fix
    /\ HeaderIndex(call.before) > HeaderSlot
    /\ BeforeVersions = <<Some(<<"1">>), Some(<<"2">>)>>
    /\ call.msg = MsgMismatch

\* C5 (as claimed): a call with fix=False changes the stored notebook only
\* when it holds no header cell.
C5_CheckOnlyNeverWrites ==
    (call.valid /\ ~call.fix /\ HeaderIndex(call.before) # -1) =>
        /\ call.writes = 0
        /\ Stored = call.before

\* C5 (amended): a call with fix=False never rewrites a cell; it writes only
\* to insert a missing header or to move a header cell that is not at index
\* 2, and with the header at index 2 the stored notebook stays as it was.
C5_CheckOnlyNeverRewrites ==
    (call.valid /\ ~call.fix) =>
        /\ (call.writes > 0 \/ Stored # call.before) =>
              HeaderIndex(call.before) # HeaderSlot
        /\ HeaderIndex(call.before) # -1 => SameCells(call.before, Stored)
        /\ HeaderIndex(call.before) = HeaderSlot =>
              call.writes = 0 /\ Stored = call.before

\* a check-only call that moved a header and wrote the notebook
C5_Witness ==
    /\ call.valid /\ ~call.fix /\ ~call.raised
    /\ HeaderIndex(call.before) \notin {-1, HeaderSlot}
    /\ call.writes = 1
    /\ Stored # call.before

\* the last call met a notebook of at least 3 cells without a header cell
HadNoHeader ==
    /\ call.valid
    /\ Len(call.before) >= MinCells
    /\ HeaderIndex(call.before) = -1

\* the version the last call resolved
ResolvedVersion ==
    IF HeaderIndex(call.before) = -1
    THEN resolve_version(NoneV, call.hook_version)
    ELSE resolve_version(BeforeVersions[2], call.hook_version)

\* cells without the cell at index i (0-based)
Without(cells, i) == SubSeq(cells, 1, i) \o SubSeq(cells, i + 2, Len(cells))

\* the last call inserted one code cell holding the canonical header at
\* index 2, wrote the notebook and returned True
Synthesized ==
    /\ ~call.raised /\ call.ret /\ call.writes = 1
    /\ Len(Stored) = Len(call.before) + 1
    /\ Without(Stored, HeaderSlot) = call.before
    /\ Stored[HeaderSlot + 1].cell_type = "code"
    /\ Stored[HeaderSlot + 1].source = build_header(repo_name, ResolvedVersion)
    /\ looks_like_header(Stored[HeaderSlot + 1].source)

\* the header at index 2 of the stored notebook parses with two versions v
ParsesWith(v) ==
    extract_versions(Stored[HeaderSlot + 1].source, repo_name) = <<Some(v), Some(v)>>

\* C16 (as claimed): with no header cell in a notebook of at least 3 cells,
\* either setting of fix inserts the canonical header at index 2, writes and
\* returns True, and the inserted cell parses with two equal versions.
C16_SynthesisParses ==
    HadNoHeader => Synthesized /\ ParsesWith(ResolvedVersion)

\* C16 (amended): as above, but the inserted cell parses with two equal
\* versions when package name and resolved version are not both empty.
C16_HeaderSynthesis ==
    HadNoHeader =>
        /\ Synthesized
        /\ repo_name \o ResolvedVersion # <<>> => ParsesWith(ResolvedVersion)

\* a check-only call with hook version "2" inserted the header of p==2
C16_Witness ==
    /\ HadNoHeader /\ ~call.fix
    /\ call.hook_version = Some(<<"2">>)
    /\ repo_name = <<"p">>
    /\ Synthesized /\ ParsesWith(<<"2">>)

\* the last call met a header with two equal versions whose source is not
\* the canonical one
HadNonCanonicalHeader ==
    /\ HadHeader
    /\ ~BeforeVersions[1].none /\ ~BeforeVersions[2].none
    /\ BeforeVersions[1].v = BeforeVersions[2].v
    /\ BeforeHeader.source # build_header(repo_name, ResolvedVersion)

\* C17: a header with two equal versions and a non-canonical source makes a
\* check-only call raise "Colab header is incorrect"; a repairing call gives
\* the cell the canonical source and returns True.
C17_NonCanonicalContent ==
    HadNonCanonicalHeader =>
        IF call.fix
        THEN /\ ~call.raised /\ call.ret
             /\ Stored[HeaderSlot + 1]
                   = [BeforeHeader EXCEPT !.source = build_header(repo_name, ResolvedVersion)]
        ELSE /\ call.raised /\ call.msg = MsgIncorrect

\* a repairing call rewrote a header that had an execution count
C17_Witness ==
    /\ HadNonCanonicalHeader /\ call.fix /\ call.ret
    /\ repo_name = <<"p">>
    /\ BeforeHeader.execution_count = <<2>>
    /\ Stored[HeaderSlot + 1].source = build_header(repo_name, <<"1">>)

\* the cell at index 2 of the stored notebook is a code cell recognized as
\* a header, with the canonical source for the resolved version
CanonicalAtSlot ==
    /\ Len(Stored) > HeaderSlot
    /\ IsHeaderCell(Stored[HeaderSlot + 1])
    /\ Stored[HeaderSlot + 1].source = build_header(repo_name, ResolvedVersion)

\* C18 (as claimed): after a call that returned, the cell at index 2 is a
\* recognized header cell with the canonical source for the resolved
\* version, and its two embedded versions are equal.
C18_HeaderAtSlotParses ==
    (call.valid /\ ~call.raised) =>
        CanonicalAtSlot /\ ParsesWith(ResolvedVersion)

\* C18 (amended): as above, but the two embedded versions are there and
\* equal when package name and resolved version are not both empty.
C18_HeaderAtSlot ==
    (call.valid /\ ~call.raised) =>
        /\ CanonicalAtSlot
        /\ repo_name \o ResolvedVersion # <<>> => ParsesWith(ResolvedVersion)

\* a repairing call found the header at index 0 and left it, canonical, at
\* index 2
C18_Witness ==
    /\ HadHeader /\ ~call.raised /\ call.fix
    /\ repo_name = <<"p">>
    /\ HeaderIndex(call.before) = 0
    /\ CanonicalAtSlot /\ ParsesWith(ResolvedVersion)

\* C19: a call that raises wrote nothing and left the stored notebook as it
\* was, with "too few cells" for fewer than 3 cells; a call writes at most
\* once, and it returns True exactly when it wrote.
C19_WriteTracksReturn ==
    call.valid =>
        /\ call.writes \in {0, 1}
        /\ call.raised =>
              /\ call.writes = 0
              /\ Stored = call.before
              /\ call.msg \in {MsgTooFewCells, MsgMalformed, MsgMismatch, MsgIncorrect}
        /\ Len(call.before) < MinCells <=> (call.raised /\ call.msg = MsgTooFewCells)
        /\ ~call.raised => (call.ret <=> call.writes = 1)
        /\ call.writes = 0 => Stored = call.before

\* a check-only call raised "incorrect" and the notebook is as it was
C19_Witness ==
    /\ call.valid /\ call.raised /\ ~call.fix
    /\ call.msg = MsgIncorrect
    /\ call.writes = 0
    /\ Stored = call.before

\* C20: a call that returned left all cells but the first recognized header
\* cell as they were and in their order; the cell count is the same when a
\* header cell was there and one more when it was not.
C20_Frame ==
    (call.valid /\ ~call.raised) =>
        IF HeaderIndex(call.before) = -1
        THEN /\ Len(Stored) = Len(call.before) + 1
             /\ Without(Stored, HeaderSlot) = call.before
        ELSE /\ Len(Stored) = Len(call.before)
             /\ Without(Stored, HeaderSlot)
                   = Without(call.before, HeaderIndex(call.before))

\* a header moved from index 0 to index 2 between two different cells
C20_Witness ==
    /\ HadHeader /\ ~call.raised
    /\ HeaderIndex(call.before) = 0
    /\ Len(call.before) = 4
    /\ call.before[2] # call.before[3]
    /\ Stored[1] = call.before[2] /\ Stored[2] = call.before[3]
    /\ Stored[4] = call.before[4]

-----------------------------------------------------------------------------
(* hooks/check_badges.py: badge formatter and the permissive validator *)

REPO_OWNER_DEFAULT == <<"open-atmos">>

preview_badge_markdown(absolute_path, name, repo_owner) ==
    <<"[![preview notebook](https://img.shields.io/static/v1?label=render%20on&logo=github&color=87ce3e&message=GitHub)](https://github.com/">>
        \o repo_owner \o <<"/">> \o name \o <<"/blob/main/">> \o absolute_path \o <<")">>

mybinder_badge_markdown(absolute_path, name, repo_owner) ==
    <<"[![launch on mybinder.org](https://mybinder.org/badge_logo.svg)](https://mybinder.org/v2/gh/">>
        \o repo_owner \o <<"/">> \o name \o <<".git/main?urlpath=lab/tree/">>
        \o absolute_path \o <<")">>

colab_badge_markdown(absolute_path, name, repo_owner) ==
    <<"[![launch on Colab](https://colab.research.google.com/assets/colab-badge.svg)](https://colab.research.google.com/github/">>
        \o repo_owner \o <<"/">> \o name \o <<"/blob/main/">> \o absolute_path \o <<")">>

\* Path.as_posix of a path given by its components
RECURSIVE as_posix(_)
as_posix(components) ==
    IF Len(components) = 0 THEN <<>>
    ELSE IF Len(components) = 1 THEN <<components[1]>>
    ELSE <<components[1], "/">> \o as_posix(Tail(components))

\* notebook_path.relative_to(repo_root), or notebook_path on ValueError
RelativeOrSame(notebook_path, repo_root) ==
    IF startswith(notebook_path, repo_root)
    THEN DropPrefix(notebook_path, Len(repo_root))
    ELSE notebook_path

expected_badges_for(notebook_path, name, repo_owner, repo_root) ==
    Bind(as_posix(RelativeOrSame(notebook_path, repo_root)), LAMBDA absolute_path :
        <<preview_badge_markdown(absolute_path, name, repo_owner),
          mybinder_badge_markdown(absolute_path, name, repo_owner),
          colab_badge_markdown(absolute_path, name, repo_owner)>>)

\* str.splitlines on "\n": the lines of a text, without a last empty line
RECURSIVE splitlines(_)
splitlines(text) ==
    IF text = <<>> THEN <<>>
    ELSE Bind({i \in 1..Len(text) : text[i] = "\n"}, LAMBDA breaks :
            IF breaks = {} THEN <<text>>
            ELSE Bind(CHOOSE i \in breaks : \A j \in breaks : i <= j, LAMBDA b :
                    <<SubSeq(text, 1, b - 1)>>
                        \o splitlines(SubSeq(text, b + 1, Len(text)))))

\* str.strip: leading and trailing white space removed
strip(line) ==
    Bind({i \in 1..Len(line) : line[i] \notin Whitespace}, LAMBDA solid :
        IF solid = {} THEN <<>>
        ELSE SubSeq(line,
                    CHOOSE i \in solid : \A j \in solid : i <= j,
                    CHOOSE i \in solid : \A j \in solid : i >= j))

SeqMap(seq, F(_)) == [i \in 1..Len(seq) |-> F(seq[i])]

SeqRange(seq) == {seq[i] : i \in 1..Len(seq)}

first_cell_lines(cells) ==
    IF Len(cells) = 0 THEN <<>>
    ELSE IF cells[1].cell_type # "markdown" THEN <<>>
    ELSE SelectSeq(SeqMap(splitlines(cells[1].source), strip),
                     LAMBDA ln : ln # <<>>)

\* the expected lines that must all be present, in the given order
BadgesMatchInOrder(actual_lines, expected_lines) ==
    IF actual_lines = SeqMap(expected_lines, strip)
    THEN [ok |-> TRUE, missing |-> <<>>]
    ELSE [ok |-> FALSE, missing |-> expected_lines]

\* the expected lines that must be all the lines there are
BadgesMatchExactCount(actual_lines, expected_lines) ==
    IF /\ Len(actual_lines) = Len(expected_lines)
       /\ {strip(ln) : ln \in SeqRange(actual_lines)}
             = {strip(ln) : ln \in SeqRange(expected_lines)}
    THEN [ok |-> TRUE, missing |-> <<>>]
    ELSE [ok |-> FALSE, missing |-> expected_lines]

\* (matches, the missing badges)
badges_match(actual_lines, expected_lines) ==
    Bind(SelectSeq(expected_lines,
                     LAMBDA exp : strip(exp) \notin {strip(ln) : ln \in SeqRange(actual_lines)}),
         LAMBDA missing : [ok |-> missing = <<>>, missing |-> missing])

\* hooks/check_badges.py, test_first_cell_contains_three_badges on the
\* notebook read from the file: "" when it passes, else the ValueError
BadgesFirstCellError(cells, notebook_path, name, repo_owner, repo_root) ==
    IF badges_match(first_cell_lines(cells),
                    expected_badges_for(notebook_path, name, repo_owner, repo_root)).ok
    THEN ""
    ELSE "Missing badges"

-----------------------------------------------------------------------------
(* The pure-function specification: the header codec and the permissive    *)
(* first-cell validator applied to inputs drawn from bounded sets.         *)

PackageNames == TextsUpTo({"p", "'", "\""}, MaxNameLen)

VersionTexts == TextsUpTo({"1", "'", "\""}, MaxVerLen)

NotebookPath == <<"repo", "docs", "a.ipynb">>

OtherPath == <<"repo", "docs", "b.ipynb">>

RepoRoot == <<"repo">>

BadgeRepoName == <<"devops_tests">>

\* what a line of the first cell holds
LineKinds == {"preview", "mybinder", "colab", "stale", "text", "blank"}

BadgeKinds == <<"preview", "mybinder", "colab">>

LineText(kind) ==
    CASE kind = "preview" ->
            expected_badges_for(NotebookPath, BadgeRepoName, REPO_OWNER_DEFAULT, RepoRoot)[1]
      [] kind = "mybinder" ->
            expected_badges_for(NotebookPath, BadgeRepoName, REPO_OWNER_DEFAULT, RepoRoot)[2]
      [] kind = "colab" ->
            expected_badges_for(NotebookPath, BadgeRepoName, REPO_OWNER_DEFAULT, RepoRoot)[3]
      [] kind = "stale" ->
            expected_badges_for(OtherPath, BadgeRepoName, REPO_OWNER_DEFAULT, RepoRoot)[1]
      [] kind = "text" -> <<"Some", " ", "description">>
      [] OTHER -> <<>>

\* "\n".join of the lines, each between two blanks when padded
RECURSIVE JoinLines(_, _)
JoinLines(kinds, padded) ==
    IF kinds = <<>> THEN <<>>
    ELSE (IF padded THEN <<" ">> \o LineText(Head(kinds)) \o <<" ">>
          ELSE LineText(Head(kinds)))
         \o (IF Len(kinds) = 1 THEN <<>>
             ELSE <<"\n">> \o JoinLines(Tail(kinds), padded))

\* the inputs: a (package name, version) pair, or a first cell given by
\* the kinds of its lines
InitPure ==
    /\ files = <<>>
    /\ repo_name = <<>>
    /\ call = NoCall
    /\ drv = DrvIdle
    /\ \/ \E name \in PackageNames, version \in VersionTexts :
            io = [op |-> "codec_input", name |-> name, version |-> version]
       \/ \E kinds \in SeqsOfLen(LineKinds, 0, MaxLines), padded \in BOOLEAN,
             cell_type \in {"markdown", "code"} :
            io = [op |-> "badges_input", kinds |-> kinds, padded |-> padded,
                  cell_type |-> cell_type]

\* extract_versions(build_header(name, version), name)
RoundTrip ==
    /\ io.op = "codec_input"
    /\ io' = [op |-> "round_trip", name |-> io.name, version |-> io.version,
              versions |-> extract_versions(build_header(io.name, io.version), io.name)]
    /\ UNCHANGED <<files, repo_name, call, drv>>

\* test_first_cell_contains_three_badges on a notebook with the given first cell
FirstCellBadges ==
    /\ io.op = "badges_input"
    /\ \E source \in {JoinLines(io.kinds, io.padded)} :
          io' = [op |-> "first_cell_badges", kinds |-> io.kinds, padded |-> io.padded,
                 cell_type |-> io.cell_type, source |-> source,
                 error |-> BadgesFirstCellError(
                               <<[MarkdownCell(source) EXCEPT !.cell_type = io.cell_type],
                                 MarkdownCell(<<"t">>),
                                 CodeCell(<<"x">>, <<1>>, <<>>)>>,
                               NotebookPath, BadgeRepoName, REPO_OWNER_DEFAULT,
                               RepoRoot)]
    /\ UNCHANGED <<files, repo_name, call, drv>>

NextPure == RoundTrip \/ FirstCellBadges

SpecPure == InitPure /\ [][NextPure]_vars

NoQuote(text) == \A i \in 1..Len(text) : text[i] \notin Quotes

NonBlankKinds(kinds) == SelectSeq(kinds, LAMBDA k : k # "blank")

IsPermutationOfBadges(kinds) ==
    /\ Len(kinds) = Len(BadgeKinds)
    /\ SeqRange(kinds) = SeqRange(BadgeKinds)

\* C10: a markdown first cell whose non-blank lines, stripped, are the three
\* expected badges in any order, with blank lines anywhere, passes.
C10_OrderTolerance ==
    (/\ io.op = "first_cell_badges"
     /\ io.cell_type = "markdown"
     /\ IsPermutationOfBadges(NonBlankKinds(io.kinds)))
        => io.error = ""

\* colab, mybinder, preview, padded, with a blank line before and between
C10_Witness ==
    /\ io.op = "first_cell_badges"
    /\ io.cell_type = "markdown"
    /\ io.padded
    /\ io.kinds = <<"blank", "colab", "blank", "mybinder", "preview">>
    /\ io.error = ""

\* C11 (as claimed): the permissive validator passes only if the first cell
\* is markdown and its non-blank lines are exactly the three expected badges.
C11_ExactlyThreeBadges ==
    (io.op = "first_cell_badges" /\ io.error = "") =>
        /\ io.cell_type = "markdown"
        /\ IsPermutationOfBadges(NonBlankKinds(io.kinds))

\* C11 (amended): the permissive validator passes exactly when the first
\* cell is markdown and each of the three expected badges is one of its
\* stripped lines; lines beyond the badges and repeated badges do not fail.
C11_BadgesPresent ==
    io.op = "first_cell_badges" =>
        (io.error = "" <=>
            /\ io.cell_type = "markdown"
            /\ SeqRange(BadgeKinds) \subseteq SeqRange(io.kinds))

\* a markdown first cell with a line of text after the three badges passes
C11_Witness ==
    /\ io.op = "first_cell_badges"
    /\ io.cell_type = "markdown"
    /\ io.kinds = <<"preview", "mybinder", "colab", "text">>
    /\ io.error = ""

-----------------------------------------------------------------------------
(* hooks/check_notebook_open_atmos_structure.py: validators and main *)

OPEN_ATMOS == <<"open-atmos">>

\* str.split("\n"): the pieces between the line breaks, empty ones included
RECURSIVE split_newline(_)
split_newline(text) ==
    Bind({i \in 1..Len(text) : text[i] = "\n"}, LAMBDA breaks :
        IF breaks = {} THEN <<text>>
        ELSE Bind(CHOOSE i \in breaks : \A j \in breaks : i <= j, LAMBDA b :
                <<SubSeq(text, 1, b - 1)>>
                    \o split_newline(SubSeq(text, b + 1, Len(text)))))

\* "\n".join(lines)
RECURSIVE join_newline(_)
join_newline(lines) ==
    IF lines = <<>> THEN <<>>
    ELSE IF Len(lines) = 1 THEN lines[1]
    ELSE lines[1] \o <<"\n">> \o join_newline(Tail(lines))

\* the three badges of the structure hook, for the file name as given
StructureBadges(notebook_filename, name) ==
    <<preview_badge_markdown(<<notebook_filename>>, name, OPEN_ATMOS),
      mybinder_badge_markdown(<<notebook_filename>>, name, OPEN_ATMOS),
      colab_badge_markdown(<<notebook_filename>>, name, OPEN_ATMOS)>>

\* test_first_cell_contains_three_badges: "" or the ValueError's message
StructureFirstCellError(cells, notebook_filename, name) ==
    IF cells[1].cell_type # "markdown" THEN "First cell is not a markdown cell"
    ELSE Bind(split_newline(cells[1].source), LAMBDA lines :
         Bind(StructureBadges(notebook_filename, name), LAMBDA badges :
            IF Len(lines) # 3
            THEN "First cell does not contain exactly 3 lines (badges)"
            ELSE IF lines[1] # badges[1]
            THEN "First badge does not match Github preview badge"
            ELSE IF lines[2] # badges[2]
            THEN "Second badge does not match MyBinder badge"
            ELSE IF lines[3] # badges[3]
            THEN "Third badge does not match Colab badge"
            ELSE ""))

MsgSecondNotMarkdown == "Second cell is not a markdown cell"

StructureBadgeErrors ==
    { "First cell is not a markdown cell",
      "First cell does not contain exactly 3 lines (badges)",
      "First badge does not match Github preview badge",
      "Second badge does not match MyBinder badge",
      "Third badge does not match Colab badge" }

\* lines 126-132: the three validators inside one try block, on the file as
\* stored now: the checks that ran and the message of the one that raised
StructureValidators(cells, notebook_filename, name) ==
    IF Len(cells) < MinCells
    THEN [checks |-> <<"cells">>, error |-> MsgTooFewCells]
    ELSE Bind(StructureFirstCellError(cells, notebook_filename, name), LAMBDA e :
            IF e # ""
            THEN [checks |-> <<"cells", "badges">>, error |-> e]
            ELSE [checks |-> <<"cells", "badges", "second">>,
                  error |-> IF cells[2].cell_type # "markdown"
                            THEN MsgSecondNotMarkdown ELSE ""])

\* line 110: the loop goes on while file names are left
LoopContinues(argv, idx, failed_files) == idx < Len(argv)

\* line 135
StructureExitIgnoringFailures(reformatted_files, failed_files) ==
    IF reformatted_files # <<>> THEN 1 ELSE 0

StructureExit(reformatted_files, failed_files) ==
    IF reformatted_files # <<>> \/ failed_files THEN 1 ELSE 0

\* one iteration of the loop of main, on argv[idx + 1]
StructureFile ==
    /\ drv.hook = "structure"
    /\ drv.pc = "loop"
    /\ LoopContinues(drv.argv, drv.idx, drv.failed_files)
    /\ \E filename \in {drv.argv[drv.idx + 1]} :
       \E r \in {check_colab_header(files[filename], repo_name,
                                    drv.fix_header, drv.hook_version)} :
       \E v \in {StructureValidators(r.cells, filename, repo_name)} :
          /\ files' = [files EXCEPT ![filename] = r.cells]
          /\ drv' = [drv EXCEPT
                !.idx = @ + 1,
                !.reformatted_files =
                    IF ~r.raised /\ r.ret THEN Append(@, filename) ELSE @,
                !.unchanged_files =
                    IF ~r.raised /\ ~r.ret THEN Append(@, filename) ELSE @,
                !.failed_files = @ \/ r.raised \/ v.error # "",
                !.log = @ \o (IF r.raised THEN <<<<filename, r.msg>>>> ELSE <<>>)
                          \o (IF v.error # "" THEN <<<<filename, v.error>>>> ELSE <<>>),
                !.ran = Append(@, [file |-> filename,
                                   header_raised |-> r.raised,
                                   header_modified |-> ~r.raised /\ r.ret,
                                   checks |-> v.checks,
                                   error |-> v.error])]
          /\ UNCHANGED <<repo_name, call, io>>

\* lines 134-135: the summary and the return
StructureReturn ==
    /\ drv.hook = "structure"
    /\ drv.pc = "loop"
    /\ ~LoopContinues(drv.argv, drv.idx, drv.failed_files)
    /\ drv' = [drv EXCEPT
            !.pc = "done",
            !.retval = StructureExit(drv.reformatted_files, drv.failed_files)]
    /\ UNCHANGED <<files, repo_name, call, io>>

(* The structure hook on a batch of stored notebooks *)

FileNames == <<"a.ipynb", "b.ipynb", "c.ipynb">>

\* the command lines: the first n file names
Batches == {SubSeq(FileNames, 1, n) : n \in 0..MaxFiles}

StructureRepoName == <<"p">>

\* the cells after the first two: no header, the canonical header, a header
\* to rewrite, a header to move, a header with two versions
StructureTails(name) ==
    { <<CodeCell(<<"x">>, <<1>>, <<>>)>>,
      <<CodeCell(build_header(name, <<>>), <<>>, <<>>)>>,
      <<CodeCell(HeaderWith(name \o ExamplesSuffix, name, <<"\n", " ">>), <<>>, <<>>)>>,
      <<CodeCell(<<"x">>, <<1>>, <<>>), CodeCell(build_header(name, <<>>), <<>>, <<>>)>>,
      <<CodeCell(HeaderWith(name \o ExamplesSuffix \o <<"1">>, name \o <<"2">>, <<" ">>),
                 <<>>, <<>>)>> }

StructureFirstCells(notebook_filename, name) ==
    { MarkdownCell(join_newline(StructureBadges(notebook_filename, name))),
      MarkdownCell(<<"t">>) }

StructureSecondCells == { MarkdownCell(<<"t">>), CodeCell(<<"x">>, <<1>>, <<>>) }

StructureNotebooks(notebook_filename, name) ==
    { <<first>> : first \in StructureFirstCells(notebook_filename, name) }
    \cup { <<first, second>> \o tail :
             first \in StructureFirstCells(notebook_filename, name),
             second \in StructureSecondCells,
             tail \in StructureTails(name) }

BatchRange(argv) == {argv[i] : i \in 1..Len(argv)}

\* the files a batch names, each holding one notebook of Notebooks(file)
StoredBatches(argv, Notebooks(_)) ==
    {f \in [BatchRange(argv) -> UNION {Notebooks(n) : n \in BatchRange(argv)}] :
        \A n \in BatchRange(argv) : f[n] \in Notebooks(n)}

\* main just before its loop (lines 106-108)
StructureStart(argv, fix_header, hook_version) ==
    [hook |-> "structure", pc |-> "loop", argv |-> argv, idx |-> 0,
     fix_header |-> fix_header, hook_version |-> hook_version,
     failed_files |-> FALSE, reformatted_files |-> <<>>,
     unchanged_files |-> <<>>, log |-> <<>>, ran |-> <<>>, retval |-> -1]

InitStructure ==
    /\ repo_name = StructureRepoName
    /\ \E argv \in Batches :
          /\ files \in StoredBatches(argv,
                         LAMBDA n : StructureNotebooks(n, StructureRepoName))
          /\ \E fix_header \in BOOLEAN, hook_version \in HookVersions :
                drv = StructureStart(argv, fix_header, hook_version)
    /\ call = NoCall
    /\ io = IoIdle

NextStructure == StructureFile \/ StructureReturn

SpecStructure == InitStructure /\ [][NextStructure]_vars

\* the structure hook has returned
StructureDone == drv.hook = "structure" /\ drv.pc = "done"

\* a check raised on the file of entry e of the run
EntryRaised(e) == e.header_raised \/ e.error # ""

\* C6: once the structure hook has returned, it returned 0 only if no header
\* check and no validator raised for any file, it returned nonzero whenever
\* one raised, and when nothing raised and no file was rewritten it returned 0
C6_ExitStatus ==
    StructureDone =>
        /\ drv.retval \in {0, 1}
        /\ Len(drv.ran) = Len(drv.argv)
        /\ drv.retval = 0 => \A i \in 1..Len(drv.ran) : ~EntryRaised(drv.ran[i])
        /\ (\E i \in 1..Len(drv.ran) : EntryRaised(drv.ran[i])) => drv.retval # 0
        /\ (\A i \in 1..Len(drv.ran) :
                ~EntryRaised(drv.ran[i]) /\ ~drv.ran[i].header_modified)
            => drv.retval = 0

\* two files, one passing everything untouched, one with a failing check
C6_Witness ==
    /\ StructureDone
    /\ Len(drv.argv) = 2
    /\ drv.retval = 1
    /\ ~EntryRaised(drv.ran[1]) /\ ~drv.ran[1].header_modified
    /\ EntryRaised(drv.ran[2]) /\ ~drv.ran[2].header_modified

AllChecks == <<"cells", "badges", "second">>

\* C7: on every file the structure hook processed, the cell count check, the
\* badge check and the second-cell check all ran after the header check, and
\* once it has returned every file of the batch was processed
C7_EveryCheckRuns ==
    /\ drv.hook = "structure" =>
          \A i \in 1..Len(drv.ran) : drv.ran[i].checks = AllChecks
    /\ StructureDone => Len(drv.ran) = Len(drv.argv)

-----------------------------------------------------------------------------
(* hooks/notebooks_output.py *)

StreamOutput(name, text) == [output_type |-> "stream", name |-> name, text |-> text]

ErrorOutput == [output_type |-> "error", name |-> "", text |-> <<>>]

JOBLIB_PREFIX == <<"[Parallel(n_jobs=">>

NoFailure == <<>>

\* the positions of seq that satisfy Test, and the least of them
Positions(seq, Test(_)) == {i \in 1..Len(seq) : Test(seq[i])}

Least(S) == CHOOSE i \in S : \A j \in S : i <= j

\* a code cell without execution count fails, whatever its source
CellContainsOutputAnySource(cells) ==
    Bind(Positions(cells, LAMBDA cell :
                cell.cell_type = "code" /\ cell.execution_count = <<>>),
         LAMBDA bad :
            IF bad = {} THEN NoFailure
            ELSE <<"ValueError", "does not contain output", Least(bad) - 1>>)

\* test_cell_contains_output: NoFailure or the ValueError it raises
test_cell_contains_output(cells) ==
    Bind(Positions(cells, LAMBDA cell :
                /\ cell.cell_type = "code"
                /\ cell.source # <<>>
                /\ cell.execution_count = <<>>),
         LAMBDA bad :
            IF bad = {} THEN NoFailure
            ELSE <<"ValueError", "does not contain output", Least(bad) - 1>>)

\* every stderr stream raises
OutputRaisesOnAnyStderr(output) ==
    \/ output.output_type = "error"
    \/ output.output_type = "stream" /\ output.name = "stderr"

\* the output makes test_no_errors_or_warnings_in_output raise
OutputRaises(output) ==
    \/ output.output_type = "error"
    \/ /\ output.output_type = "stream"
       /\ output.name = "stderr"
       /\ output.text # <<>>
       /\ ~startswith(output.text, JOBLIB_PREFIX)

test_no_errors_or_warnings_in_output(cells) ==
    Bind(Positions(cells, LAMBDA cell :
                /\ cell.cell_type = "code"
                /\ Positions(cell.outputs, OutputRaises) # {}),
         LAMBDA bad :
            IF bad = {} THEN NoFailure
            ELSE <<"ValueError", "contain error or warning", Least(bad) - 1>>)

\* main: the two validators, in the order they are run
OutputTestFunctions == <<"test_cell_contains_output", "test_no_errors_or_warnings_in_output">>

CallTestFunction(func, cells) ==
    IF func = "test_cell_contains_output" THEN test_cell_contains_output(cells)
    ELSE test_no_errors_or_warnings_in_output(cells)

\* `except NotebookTestError` on an exception of class raised_class:
\* NotebookTestError derives from Exception only
NotebookTestErrorCatches(raised_class) == raised_class = "NotebookTestError"

\* the loop over test_functions on one notebook, from function k on:
\* the functions run, the lines printed, and the exception that escaped
RECURSIVE RunTestFunctions(_, _, _, _)
RunTestFunctions(test_functions, k, filename, cells) ==
    IF k > Len(test_functions)
    THEN [ran |-> <<>>, printed |-> <<>>, escaped |-> NoFailure]
    ELSE Bind(CallTestFunction(test_functions[k], cells), LAMBDA e :
            IF e = NoFailure \/ NotebookTestErrorCatches(e[1])
            THEN Bind(RunTestFunctions(test_functions, k + 1, filename, cells), LAMBDA rest :
                    [ran |-> <<test_functions[k]>> \o rest.ran,
                     printed |-> (IF e = NoFailure THEN <<>> ELSE <<<<filename, e>>>>)
                                    \o rest.printed,
                     escaped |-> rest.escaped])
            ELSE [ran |-> <<test_functions[k]>>, printed |-> <<>>, escaped |-> e])

\* open_and_test_notebooks just before its loop (line 49)
OutputStart(argv) ==
    [hook |-> "output", pc |-> "loop", argv |-> argv, idx |-> 0,
     retval |-> 0, log |-> <<>>, ran |-> <<>>, exception |-> NoFailure]

\* one iteration of the loop over the file names
OutputFile ==
    /\ drv.hook = "output"
    /\ drv.pc = "loop"
    /\ LoopContinues(drv.argv, drv.idx, FALSE)
    /\ \E filename \in {drv.argv[drv.idx + 1]} :
       \E r \in {RunTestFunctions(OutputTestFunctions, 1, filename, files[filename])} :
          drv' = [drv EXCEPT
                !.idx = @ + 1,
                !.pc = IF r.escaped = NoFailure THEN "loop" ELSE "raised",
                !.exception = r.escaped,
                !.retval = IF r.printed # <<>> THEN 1 ELSE @,
                !.log = @ \o r.printed,
                !.ran = Append(@, [file |-> filename, checks |-> r.ran,
                                   failures |-> SelectSeq(
                                       [k \in 1..Len(OutputTestFunctions) |->
                                           CallTestFunction(OutputTestFunctions[k],
                                                            files[filename])],
                                       LAMBDA e : e # NoFailure)])]
    /\ UNCHANGED <<files, repo_name, call, io>>

\* line 59
OutputReturn ==
    /\ drv.hook = "output"
    /\ drv.pc = "loop"
    /\ ~LoopContinues(drv.argv, drv.idx, FALSE)
    /\ drv' = [drv EXCEPT !.pc = "done"]
    /\ UNCHANGED <<files, repo_name, call, io>>

(* The notebook-output hook on a batch of stored notebooks *)

OutputCells ==
    { MarkdownCell(<<"t">>),
      CodeCell(<<"x">>, <<1>>, <<>>),
      CodeCell(<<"x">>, <<>>, <<>>),
      CodeCell(<<>>, <<>>, <<>>),
      CodeCell(<<"x">>, <<1>>, <<StreamOutput("stdout", <<"o">>)>>),
      CodeCell(<<"x">>, <<1>>, <<StreamOutput("stderr", <<"W">>)>>),
      CodeCell(<<"x">>, <<1>>, <<StreamOutput("stderr", JOBLIB_PREFIX \o <<"4">>)>>),
      CodeCell(<<"x">>, <<1>>, <<StreamOutput("stderr", <<>>)>>),
      CodeCell(<<"x">>, <<1>>, <<ErrorOutput>>) }

\* one cell, or an unexecuted cell before it
OutputNotebooks ==
    { <<c>> : c \in OutputCells }
    \cup { <<c, CodeCell(<<"x">>, <<>>, <<>>)>> :
             c \in { CodeCell(<<"x">>, <<1>>, <<ErrorOutput>>),
                     CodeCell(<<"x">>, <<1>>, <<>>) } }

InitOutput ==
    /\ repo_name = <<>>
    /\ \E argv \in Batches :
          /\ files \in StoredBatches(argv, LAMBDA n : OutputNotebooks)
          /\ drv = OutputStart(argv)
    /\ call = NoCall
    /\ io = IoIdle

NextOutput == OutputFile \/ OutputReturn

SpecOutput == InitOutput /\ [][NextOutput]_vars

\* C8: in the notebook-output driver no validator failure escapes the loop;
\* on every processed file every validator ran, and each failure is printed
\* with the file's name and makes the return value 1
C8_FailuresReported ==
    drv.hook = "output" =>
        /\ drv.pc # "raised"
        /\ \A i \in 1..Len(drv.ran) :
              /\ drv.ran[i].checks = OutputTestFunctions
              /\ \A k \in 1..Len(drv.ran[i].failures) :
                    /\ \E l \in 1..Len(drv.log) :
                          drv.log[l] = <<drv.ran[i].file, drv.ran[i].failures[k]>>
                    /\ drv.retval = 1

-----------------------------------------------------------------------------
(* hooks/check_badges.py: the validators on a stored file, the repair, main *)

MsgNoSecondCell == "Notebook has no second cell"

\* Path(filename) by its components, for the file names of the batch
PathOf(filename) == <<"repo", "docs", filename>>

\* lines 254-258: the three validators in order; the check that raised and
\* its message, or no check
BadgeValidators(cells, notebook_path, name, repo_owner, repo_root) ==
    IF Len(cells) < MinCells THEN [check |-> "cells", error |-> MsgTooFewCells]
    ELSE Bind(BadgesFirstCellError(cells, notebook_path, name, repo_owner, repo_root),
              LAMBDA e :
                IF e # "" THEN [check |-> "badges", error |-> e]
                ELSE IF Len(cells) < 2
                THEN [check |-> "second", error |-> MsgNoSecondCell]
                ELSE IF cells[2].cell_type # "markdown"
                THEN [check |-> "second", error |-> MsgSecondNotMarkdown]
                ELSE [check |-> "", error |-> ""])

\* the cells fix_header_inplace writes
fix_header_inplace(cells, notebook_path, name, repo_owner, repo_root) ==
    Bind(MarkdownCell(join_newline(
            expected_badges_for(notebook_path, name, repo_owner, repo_root))),
         LAMBDA new_first :
            IF cells = <<>> THEN <<new_first>>
            ELSE [cells EXCEPT ![1] = new_first])

\* `except NotebookTestError`, the class imported from hooks/utils.py,
\* catches what the validators raise
UtilsNotebookTestErrorCatches(raised_class) == raised_class \in {"ValueError", "NotebookTestError"}

\* main just before its loop (lines 244-246)
BadgesStart(argv, fix_header) ==
    [hook |-> "badges", pc |-> "loop", argv |-> argv, idx |-> 0,
     fix_header |-> fix_header, retval |-> 0, log |-> <<>>, ran |-> <<>>]

\* one iteration of the loop of main, on argv[idx + 1]
BadgesFile ==
    /\ drv.hook = "badges"
    /\ drv.pc = "loop"
    /\ LoopContinues(drv.argv, drv.idx, FALSE)
    /\ \E filename \in {drv.argv[drv.idx + 1]} :
       \E v \in {BadgeValidators(files[filename], PathOf(filename), repo_name,
                                 REPO_OWNER_DEFAULT, RepoRoot)} :
          IF v.error = ""
          THEN /\ drv' = [drv EXCEPT
                     !.idx = @ + 1,
                     !.log = Append(@, <<filename, "OK">>),
                     !.ran = Append(@, [file |-> filename, check |-> v.check,
                                        fixed |-> FALSE])]
               /\ files' = files
          ELSE IF ~UtilsNotebookTestErrorCatches("ValueError")
          THEN /\ drv' = [drv EXCEPT !.idx = @ + 1, !.pc = "raised"]
               /\ files' = files
          ELSE IF ~drv.fix_header
          THEN /\ drv' = [drv EXCEPT
                     !.idx = @ + 1,
                     !.retval = 1,
                     !.log = Append(@, <<filename, v.error>>),
                     !.ran = Append(@, [file |-> filename, check |-> v.check,
                                        fixed |-> FALSE])]
               /\ files' = files
          ELSE /\ drv' = [drv EXCEPT
                     !.idx = @ + 1,
                     !.retval = 0,
                     !.log = @ \o <<<<filename, v.error>>, <<filename, "header fixed">>>>,
                     !.ran = Append(@, [file |-> filename, check |-> v.check,
                                        fixed |-> TRUE])]
               /\ files' = [files EXCEPT ![filename] =
                                fix_header_inplace(@, PathOf(filename), repo_name,
                                                   REPO_OWNER_DEFAULT, RepoRoot)]
    /\ UNCHANGED <<repo_name, call, io>>

\* line 273
BadgesReturn ==
    /\ drv.hook = "badges"
    /\ drv.pc = "loop"
    /\ ~LoopContinues(drv.argv, drv.idx, FALSE)
    /\ drv' = [drv EXCEPT !.pc = "done"]
    /\ UNCHANGED <<files, repo_name, call, io>>

(* The badge hook on a batch of stored notebooks *)

BadgeFirstCells(filename) ==
    { MarkdownCell(join_newline(
          expected_badges_for(PathOf(filename), BadgeRepoName, REPO_OWNER_DEFAULT, RepoRoot))),
      MarkdownCell(<<"t">>),
      CodeCell(<<"x">>, <<1>>, <<>>) }

BadgeNotebooks(filename) ==
    { <<>> }
    \cup { <<first>> : first \in BadgeFirstCells(filename) }
    \cup { <<first, second, CodeCell(<<"x">>, <<1>>, <<>>)>> :
             first \in BadgeFirstCells(filename),
             second \in StructureSecondCells }

InitBadges ==
    /\ repo_name = BadgeRepoName
    /\ \E argv \in Batches :
          /\ files \in StoredBatches(argv, BadgeNotebooks)
          /\ \E fix_header \in BOOLEAN : drv = BadgesStart(argv, fix_header)
    /\ call = NoCall
    /\ io = IoIdle

NextBadges == BadgesFile \/ BadgesReturn

SpecBadges == InitBadges /\ [][NextBadges]_vars

\* the check of that name passes on the cells
BadgeCheckPasses(check, cells, filename) ==
    IF check = "cells" THEN Len(cells) >= MinCells
    ELSE IF check = "badges"
    THEN BadgesFirstCellError(cells, PathOf(filename), repo_name,
                              REPO_OWNER_DEFAULT, RepoRoot) = ""
    ELSE IF check = "second" THEN Len(cells) >= 2 /\ cells[2].cell_type = "markdown"
    ELSE TRUE

\* C9: a failure that was not repaired keeps the badge hook's exit code
\* nonzero from then on; once it has returned 0, every file passed or the
\* check that failed on it passes on the file as repaired; and no file that
\* failed the cell count or the second-cell check is reported as fixed
C9_ExitCode ==
    drv.hook = "badges" =>
        /\ (\E i \in 1..Len(drv.ran) :
                drv.ran[i].check # "" /\ ~drv.ran[i].fixed) => drv.retval # 0
        /\ (drv.pc = "done" /\ drv.retval = 0) =>
              \A i \in 1..Len(drv.ran) :
                 BadgeCheckPasses(drv.ran[i].check, files[drv.ran[i].file],
                                  drv.ran[i].file)
        /\ \A i \in 1..Len(drv.ran) :
              drv.ran[i].check \in {"cells", "second"} => ~drv.ran[i].fixed

-----------------------------------------------------------------------------
(* The validators, each applied to a notebook drawn from a bounded set *)

MsgIndexError == "IndexError"

MsgExpectedMarkdown == "Expected a markdown cell"

\* hooks/check_badges.py, test_second_cell_is_a_markdown_cell
BadgeHookSecondCellError(cells) ==
    IF Len(cells) < 2 THEN MsgNoSecondCell
    ELSE IF cells[2].cell_type # "markdown" THEN MsgSecondNotMarkdown
    ELSE ""

\* hooks/check_notebook_open_atmos_structure.py, the same test
StructureSecondCellError(cells) ==
    IF Len(cells) < 2 THEN MsgIndexError
    ELSE IF cells[2].cell_type # "markdown" THEN MsgSecondNotMarkdown
    ELSE ""

\* devops_tests/pre_commit_hooks/check_badges.py, the same test: it reads
\* notebook.cells[0]
PreCommitSecondCellError(cells) ==
    IF Len(cells) < 1 THEN MsgIndexError
    ELSE IF cells[1].cell_type # "markdown" THEN MsgExpectedMarkdown
    ELSE ""

PLOT_SHOW == {"pyplot.show(", "plt.show("}

ANIMATION_MARKERS ==
    {"funcAnimation", "matplotlib.animation", "from matplotlib import animation"}

\* some code cell's source contains one of the markers
UsedInCode(cells, markers) ==
    \E i \in 1..Len(cells) :
        /\ cells[i].cell_type = "code"
        /\ \E m \in markers : Contains(cells[i].source, m)

\* a direct call fails however the wrapper is used
ShowPlotIgnoringWrapper(cells) == UsedInCode(cells, PLOT_SHOW)

\* test_show_plot_used_instead_of_matplotlib raises
test_show_plot_used_instead_of_matplotlib(cells) ==
    UsedInCode(cells, PLOT_SHOW) /\ ~UsedInCode(cells, {"show_plot("})

\* test_show_anim_used_instead_of_matplotlib raises
test_show_anim_used_instead_of_matplotlib(cells) ==
    UsedInCode(cells, ANIMATION_MARKERS) /\ ~UsedInCode(cells, {"show_anim("})

\* the cells of the notebooks handed to the validators
ValidatedCells ==
    OutputCells
    \cup { CodeCell(<<>>, <<1>>, <<>>) }
    \cup { CodeCell(<<"a", "=", m, "\n">>, <<1>>, <<>>) :
             m \in PLOT_SHOW \cup ANIMATION_MARKERS
                    \cup {"show_plot(", "show_anim(", "FuncAnimation"} }
    \cup { MarkdownCell(<<m>>) :
             m \in {"plt.show(", "show_plot(", "matplotlib.animation", "show_anim("} }

ValidatedNotebooks == SeqsOfLen(ValidatedCells, 1, MaxValidated)

InitValidators ==
    /\ files = <<>>
    /\ repo_name = <<>>
    /\ call = NoCall
    /\ drv = DrvIdle
    /\ \E cells \in ValidatedNotebooks : io = [op |-> "notebook", cells |-> cells]

\* the outcome of validator `op` on the drawn notebook
Validated(op, failed, error) ==
    /\ io.op = "notebook"
    /\ io' = [op |-> op, cells |-> io.cells, failed |-> failed, error |-> error]
    /\ UNCHANGED <<files, repo_name, call, drv>>

SecondCellBadgeHook ==
    \E e \in {BadgeHookSecondCellError(io.cells)} :
        Validated("second_cell_badge_hook", e # "", e)

SecondCellStructureHook ==
    \E e \in {StructureSecondCellError(io.cells)} :
        Validated("second_cell_structure_hook", e # "", e)

SecondCellPreCommit ==
    \E e \in {PreCommitSecondCellError(io.cells)} :
        Validated("second_cell_pre_commit", e # "", e)

NoErrorsOrWarnings ==
    \E e \in {test_no_errors_or_warnings_in_output(io.cells)} :
        Validated("no_errors_or_warnings", e # NoFailure, e)

CellContainsOutput ==
    \E e \in {test_cell_contains_output(io.cells)} :
        Validated("cell_contains_output", e # NoFailure, e)

ShowPlot ==
    \E raises \in {test_show_plot_used_instead_of_matplotlib(io.cells)} :
        Validated("show_plot", raises, "ValueError")

ShowAnim ==
    \E raises \in {test_show_anim_used_instead_of_matplotlib(io.cells)} :
        Validated("show_anim", raises, "AssertionError")

NextValidators ==
    \/ SecondCellBadgeHook
    \/ SecondCellStructureHook
    \/ SecondCellPreCommit
    \/ NoErrorsOrWarnings
    \/ CellContainsOutput
    \/ ShowPlot
    \/ ShowAnim

SpecValidators == InitValidators /\ [][NextValidators]_vars

SecondCellOps ==
    {"second_cell_badge_hook", "second_cell_structure_hook", "second_cell_pre_commit"}

\* C12: on a notebook of at least 2 cells, each of the three second-cell
\* validators fails exactly when the cell at index 1 is not markdown
C12_SecondCellOnly ==
    (io.op \in SecondCellOps /\ Len(io.cells) >= 2) =>
        (io.failed <=> io.cells[2].cell_type # "markdown")

\* an output that is a stderr stream
IsStderr(output) == output.output_type = "stream" /\ output.name = "stderr"

\* some output of some code cell satisfies Test
SomeCodeOutput(cells, Test(_)) ==
    \E i \in 1..Len(cells) :
        /\ cells[i].cell_type = "code"
        /\ \E k \in 1..Len(cells[i].outputs) : Test(cells[i].outputs[k])

\* C13 (as claimed): the output validator fails exactly when a code cell has
\* an error output or a stderr stream whose text does not start with the
\* allow-listed prefix, an empty text included
C13_AnyOtherStderrFails ==
    io.op = "no_errors_or_warnings" =>
        (io.failed <=>
            SomeCodeOutput(io.cells, LAMBDA o :
                \/ o.output_type = "error"
                \/ IsStderr(o) /\ ~startswith(o.text, JOBLIB_PREFIX)))

\* C13 (amended): the output validator fails exactly when a code cell has an
\* error output or a stderr stream whose text is not empty and does not
\* start with the allow-listed prefix; stdout streams, allow-listed stderr
\* streams and stderr streams with an empty text pass
C13_CleanOutput ==
    io.op = "no_errors_or_warnings" =>
        (io.failed <=>
            SomeCodeOutput(io.cells, LAMBDA o :
                \/ o.output_type = "error"
                \/ /\ IsStderr(o)
                   /\ o.text # <<>>
                   /\ ~startswith(o.text, JOBLIB_PREFIX)))

\* an allow-listed stderr stream and an empty stderr stream passed
C13_Witness ==
    /\ io.op = "no_errors_or_warnings"
    /\ ~io.failed
    /\ SomeCodeOutput(io.cells, LAMBDA o : IsStderr(o) /\ o.text = <<>>)
    /\ SomeCodeOutput(io.cells, LAMBDA o :
            IsStderr(o) /\ o.text # <<>> /\ startswith(o.text, JOBLIB_PREFIX))

\* a code cell with a source and no execution count
Unexecuted(cell) ==
    cell.cell_type = "code" /\ cell.source # <<>> /\ cell.execution_count = <<>>

\* C14: test_cell_contains_output fails exactly when some code cell with a
\* non-empty source has no execution count; markdown cells and code cells
\* with an empty source never make it fail
C14_ExecutionCompleteness ==
    io.op = "cell_contains_output" =>
        /\ io.failed <=> \E i \in 1..Len(io.cells) : Unexecuted(io.cells[i])
        /\ (\A i \in 1..Len(io.cells) :
                io.cells[i].cell_type = "markdown" \/ io.cells[i].source = <<>>)
             => ~io.failed

\* it failed on the second cell, after a code cell with an empty source and
\* no execution count
C14_Witness ==
    /\ io.op = "cell_contains_output"
    /\ Len(io.cells) = 2
    /\ io.cells[1] = CodeCell(<<>>, <<>>, <<>>)
    /\ Unexecuted(io.cells[2])
    /\ io.failed
    /\ io.error[3] = 1

\* the code cells whose source contains marker m
CodeCellsWith(cells, m) ==
    {i \in 1..Len(cells) : cells[i].cell_type = "code" /\ Contains(cells[i].source, m)}

CodeCellsOnly(cells) == SelectSeq(cells, LAMBDA cell : cell.cell_type = "code")

\* C15: the plot test fails exactly when a code cell calls pyplot.show( or
\* plt.show( and no code cell calls show_plot(; the animation test fails
\* exactly when a code cell holds an animation marker and no code cell calls
\* show_anim(; markdown cells change neither result
C15_WrapperUsage ==
    /\ io.op = "show_plot" =>
          /\ io.failed <=>
                /\ CodeCellsWith(io.cells, "pyplot.show(")
                      \cup CodeCellsWith(io.cells, "plt.show(") # {}
                /\ CodeCellsWith(io.cells, "show_plot(") = {}
          /\ io.failed =
                test_show_plot_used_instead_of_matplotlib(CodeCellsOnly(io.cells))
    /\ io.op = "show_anim" =>
          /\ io.failed <=>
                /\ \E m \in ANIMATION_MARKERS : CodeCellsWith(io.cells, m) # {}
                /\ CodeCellsWith(io.cells, "show_anim(") = {}
          /\ io.failed =
                test_show_anim_used_instead_of_matplotlib(CodeCellsOnly(io.cells))

\* plt.show( in the first code cell, show_plot( in the second: it passes
C15_Witness ==
    /\ io.op = "show_plot"
    /\ Len(io.cells) = 2
    /\ CodeCellsWith(io.cells, "plt.show(") = {1}
    /\ CodeCellsWith(io.cells, "show_plot(") = {2}
    /\ ~io.failed

====
